---- MODULE Spec2Model ----
(***************************************************************************)
(* Model of galileo's EventProcessor (src/control/event_processor.rs):     *)
(* the conversion of raw user events into user events, the dispatch of     *)
(* those events through the handler chain with drag pinning, and the       *)
(* two-touch GestureController.                                            *)
(*                                                                         *)
(* Conventions                                                             *)
(*   Option<T>   None is <<>>, Some(x) is <<x>>.                           *)
(*   Point2d     <<x, y>> with integer coordinates.                        *)
(*   SystemTime  milliseconds since UNIX_EPOCH.                            *)
(*   Vec index   handler indices are 0-based as in the source; positions   *)
(*               in TLA+ sequences (events, touches) are 1-based.          *)
(*   lengths     a Euclidean length is carried as its square (an integer); *)
(*               comparisons of lengths are decided exactly on squares.    *)
(*   angles      microradians.                                             *)
(***************************************************************************)
EXTENDS Integers, Sequences, FiniteSets, TLC

\* ------------------------------------------------------------ constants
DRAG_THRESHOLD == 3
ZOOM_THRESHOLD == 60
TILT_THRESHOLD == 60
\* 0.10 rad in microradians
ROTATE_THRESHOLD == 100000
CLICK_TIMEOUT == 200
DBL_CLICK_TIMEOUT == 500
UNIX_EPOCH == 0

\* ------------------------------------------------------------ bounds
\* handlers registered at most
MaxHandlers == 2

\* ------------------------------------------------------------ input sets
Buttons == {"Left", "Right"}
\* readings of SystemTime::now(); the system clock is not monotonic, so a
\* reading may be earlier than the one before it
ClockReadings == {1000, 1100, 1300, 1600}
\* pointer positions: from <<0,0>>, <<3,0>> is at taxicab distance exactly
\* 3 and <<2,2>> at taxicab distance 4 (Euclidean distance below 3)
PointerPoints == {<<0, 0>>, <<3, 0>>, <<2, 2>>}
ScrollDeltas == {1}
TouchIds == {1, 2, 3}
\* touch positions (even coordinates, so that midpoints are integral).  With
\* contacts started at <<0,0>> and <<100,0>>, moving the first one to
\*   <<0,2>>    crosses no threshold (the mode stays Pan),
\*   <<0,20>>   turns the angle by 0.197 rad (Rotate),
\*   <<0,122>>  moves the midpoint by 61 and the distance by 57.7 (Tilt),
\*   <<0,130>>  changes the distance by 64.0 (Zoom).
TouchPoints == {<<0, 0>>, <<100, 0>>, <<0, 2>>, <<0, 20>>, <<0, 122>>, <<0, 130>>}
TouchStartPoints == {<<0, 0>>, <<100, 0>>}
TouchEndPoints == {<<0, 0>>, <<100, 0>>}

Propagate == "Propagate"
Stop == "Stop"
Consume == "Consume"
EventPropagation == {Propagate, Stop, Consume}

None == <<>>
Some(x) == <<x>>
is_some(o) == o # None
is_none(o) == o = None
unwrap(o) == o[1]

VARIABLES
    handlers,                  \* number of handlers in the chain (the handlers are opaque)
    pointer_position,
    pointer_pressed_position,
    touches,                   \* sequence of TouchInfo
    touch_mode,                \* gesture_controller.touch_mode
    midpoint_start,            \* gesture_controller.midpoint_start
    angle_start,               \* gesture_controller.angle_start
    distance_start,            \* gesture_controller.distance_start, squared
    buttons_state,
    last_pressed_time,
    last_click_time,
    drag_target,
    \* the call of handle() in progress
    raw,                       \* the raw event it was called with (its kind, and the
                               \* touch id of a touch event), None when idle
    events,                    \* the user events process() returned (user_events)
    cursor,                    \* position in events of the next event to dispatch,
                               \* 0 while no call of handle() is in progress
    offers,                    \* the calls of handler.handle() made for the event
                               \* dispatched last (events[cursor - 1]), in order
    \* observation only, never read by the code
    entry_target,              \* drag_target when handle() was entered
    pressed_at,                \* per held button, the time of its ButtonPressed
    drag_started               \* the button a PointerMoved emitted DragStarted for
                               \* since the last button press or release

core == <<handlers, pointer_position, pointer_pressed_position, touches,
          touch_mode, midpoint_start, angle_start, distance_start,
          buttons_state, last_pressed_time, last_click_time, drag_target>>
gesture == <<touch_mode, midpoint_start, angle_start, distance_start>>
vars == <<handlers, pointer_position, pointer_pressed_position, touches,
          touch_mode, midpoint_start, angle_start, distance_start,
          buttons_state, last_pressed_time, last_click_time, drag_target,
          raw, events, cursor, offers, entry_target, pressed_at, drag_started>>
observed == <<pressed_at, drag_started>>

\* ------------------------------------------------------------ geometry
Abs(x) == IF x < 0 THEN -x ELSE x
\* Sub with the operands exchanged
SubFrom(p, q) == <<q[1] - p[1], q[2] - p[2]>>
Sub(p, q) == <<p[1] - q[1], p[2] - q[2]>>
Add(p, q) == <<p[1] + q[1], p[2] + q[2]>>
Half(p) == <<p[1] \div 2, p[2] \div 2>>
taxicab_distance(p, q) == Abs(p[1] - q[1]) + Abs(p[2] - q[2])
\* |v|^2
MagnitudeSq(v) == v[1] * v[1] + v[2] * v[2]
\* |sqrt(a2) - sqrt(b2)| > th, decided on the squares: with hi >= lo,
\* sqrt(hi) - sqrt(lo) > th  iff  hi - lo - th^2 > 2 th sqrt(lo)
LengthsDifferBy(a2, b2, th) ==
    LET hi == IF a2 >= b2 THEN a2 ELSE b2
        lo == IF a2 >= b2 THEN b2 ELSE a2
        c == hi - lo - th * th
    IN  c > 0 /\ c * c > 4 * th * th * lo
\* sqrt(v2) > th
LengthExceeds(v2, th) == v2 > th * th

\* pi and pi/2 in microradians
PI == 3141593
FRAC_PI_2 == 1570796
\* atan(y / x) in microradians for 0 < x, 0 < y, for the directions the touch
\* positions span
AtanFirstQuadrant(y, x) ==
    CASE 100 * y = 2 * x -> 19997
      [] 100 * y = 20 * x -> 197396
      [] 100 * y = 122 * x -> 884175
      [] 100 * y = 130 * x -> 915101
\* f64::atan2(y, x) in microradians, in (-pi, pi]
atan2(y, x) ==
    IF y = 0 THEN (IF x >= 0 THEN 0 ELSE PI)
    ELSE IF x = 0 THEN (IF y > 0 THEN FRAC_PI_2 ELSE -FRAC_PI_2)
    ELSE LET a == AtanFirstQuadrant(Abs(y), Abs(x))
         IN  IF x > 0 THEN (IF y > 0 THEN a ELSE -a)
             ELSE (IF y > 0 THEN PI - a ELSE a - PI)

\* ------------------------------------------------------------ buttons
set_pressed(state, button) == state \cup {button}
set_released(state, button) == state \ {button}
single_pressed(state) ==
    IF Cardinality(state) = 1 THEN Some(CHOOSE b \in state : TRUE) ELSE None

\* ------------------------------------------------------------ time
\* DurationSinceOrDefault that measures the distance between the two times
AbsoluteDuration(t, earlier) == Abs(t - earlier)

\* now.duration_since(earlier).unwrap_or_default(): the elapsed time, and
\* the zero duration when `earlier` is later than `now`
DurationSinceOrDefault(t, earlier) == IF t >= earlier THEN t - earlier ELSE 0

\* ------------------------------------------------------------ user events
MouseEventPos(pos, buttons) == [screen_pointer_position |-> pos, buttons |-> buttons]

EvButtonPressed(b, me) == [kind |-> "ButtonPressed", button |-> b, mouse |-> me]
EvButtonReleased(b, me) == [kind |-> "ButtonReleased", button |-> b, mouse |-> me]
EvClick(b, me) == [kind |-> "Click", button |-> b, mouse |-> me]
EvDoubleClick(b, me) == [kind |-> "DoubleClick", button |-> b, mouse |-> me]
EvPointerMoved(me) == [kind |-> "PointerMoved", mouse |-> me]
EvScroll(d, me) == [kind |-> "Scroll", delta |-> d, mouse |-> me]
EvDragStarted(b, me) == [kind |-> "DragStarted", button |-> b, mouse |-> me]
EvDrag(b, d, me) == [kind |-> "Drag", button |-> b, delta |-> d, mouse |-> me]
EvDragEnded(b, me) == [kind |-> "DragEnded", button |-> b, mouse |-> me]
EvPan(d, midpoint) == [kind |-> "Pan", delta |-> d, midpoint |-> midpoint]
\* the zoom factor sqrt(num_sq) / sqrt(den_sq)
EvZoom(num_sq, den_sq, anchor) ==
    [kind |-> "Zoom", num_sq |-> num_sq, den_sq |-> den_sq, anchor |-> anchor]
EvRotate(tilt, rotation) == [kind |-> "Rotate", tilt |-> tilt, rotation |-> rotation]

Kinds(evs) == [k \in 1..Len(evs) |-> evs[k].kind]

\* ------------------------------------------------------------ dispatch
\* What the handlers answer when offered one event: answers[i] is what
\* handler i returns.  A handler after the first one that does not propagate
\* is never called for that event, so the answers are enumerated with at
\* most one non-Propagate handler.
HandlerAnswers(n) ==
    {[i \in 0..(n - 1) |-> Propagate]} \cup
    {[i \in 0..(n - 1) |-> IF i = s THEN a ELSE Propagate] :
        s \in 0..(n - 1), a \in {Stop, Consume}}

IsDragContinuation(ev) == ev.kind \in {"Drag", "DragEnded"}

\* SkipsHandler that reads the drag target of the time handle() was called
SkipsHandlerByEntryTarget(ev, index, target) ==
    IsDragContinuation(ev) /\ (is_none(entry_target) \/ index # unwrap(entry_target))

\* SkipsHandler without the `else { continue }` of lines 102-104: with no drag
\* target, a Drag or DragEnded goes to every handler
SkipsHandlerOnlyWhenPinned(ev, index, target) ==
    IsDragContinuation(ev) /\ is_some(target) /\ index # unwrap(target)

\* lines 97-105: the handler at `index` is passed over (continue)
SkipsHandler(ev, index, target) ==
    IsDragContinuation(ev) /\ (is_none(target) \/ index # unwrap(target))

\* Breaks without the break of lines 109-111 (Stop)
BreaksOnConsumeOnly(answer) == answer = Consume

\* lines 108-116: the loop ends after this answer (break)
Breaks(answer) == answer \in {Stop, Consume}

\* DragStartTarget without the `if let UserEvent::DragStarted(..)` of line 111
DragStartTargetAnyEvent(ev, index, answer) ==
    IF answer = Consume THEN Some(index) ELSE None

\* lines 110-113: drag_start_target after handler `index` answered
DragStartTarget(ev, index, answer) ==
    IF answer = Consume /\ ev.kind = "DragStarted" THEN Some(index) ELSE None

\* lines 96-118: the loop over the handlers for one event, from handler
\* `index` on; the offers made and drag_start_target
RECURSIVE HandlerLoop(_, _, _, _, _)
HandlerLoop(ev, index, n, target, answers) ==
    IF index >= n THEN [offers |-> <<>>, drag_start_target |-> None]
    ELSE IF SkipsHandler(ev, index, target)
    THEN HandlerLoop(ev, index + 1, n, target, answers)
    ELSE LET o == [handler |-> index, answer |-> answers[index]]
         IN  IF Breaks(answers[index])
             THEN [offers |-> <<o>>,
                   drag_start_target |-> DragStartTarget(ev, index, answers[index])]
             ELSE LET rest == HandlerLoop(ev, index + 1, n, target, answers)
                  IN  [offers |-> <<o>> \o rest.offers,
                       drag_start_target |-> rest.drag_start_target]

\* TargetAfter without lines 120-122: a consumed DragStarted pins nothing
TargetAfterNeverPinned(ev, target, drag_start_target) ==
    IF ev.kind = "DragEnded" THEN None ELSE target

\* lines 120-126: drag_target after the event's handler loop
TargetAfter(ev, target, drag_start_target) ==
    LET t == IF is_some(drag_start_target) THEN drag_start_target ELSE target
    IN  IF ev.kind = "DragEnded" THEN None ELSE t

\* ------------------------------------------------------------ initial state
Init ==
    /\ handlers = 0
    /\ pointer_position = <<0, 0>>
    /\ pointer_pressed_position = <<0, 0>>
    /\ touches = <<>>
    /\ touch_mode = "Pan"
    /\ midpoint_start = <<0, 0>>
    /\ angle_start = 0
    /\ distance_start = 0
    /\ buttons_state = {}
    /\ last_pressed_time = UNIX_EPOCH
    /\ last_click_time = UNIX_EPOCH
    /\ drag_target = None
    /\ raw = None
    /\ events = <<>>
    /\ cursor = 0
    /\ offers = <<>>
    /\ entry_target = None
    /\ pressed_at = [b \in Buttons |-> None]
    /\ drag_started = None

\* ------------------------------------------------------------ operations
\* No call of handle() is in progress.
Idle == cursor = 0

add_handler ==
    /\ Idle
    /\ handlers < MaxHandlers
    /\ handlers' = handlers + 1
    /\ UNCHANGED <<pointer_position, pointer_pressed_position, touches, gesture,
                   buttons_state, last_pressed_time, last_click_time, drag_target,
                   raw, events, cursor, offers, entry_target, observed>>

\* handle(), line 80: process() returned `evs`; the loop over them starts
Processed(r, evs) ==
    /\ raw' = Some(r)
    /\ events' = evs
    /\ cursor' = 1
    /\ offers' = <<>>
    /\ entry_target' = drag_target

\* handle(), lines 81-127, one iteration of the loop over the user events:
\* the event at `cursor` is offered to the handlers, whatever they answer
DispatchEvent ==
    /\ cursor \in 1..Len(events)
    /\ \E answers \in HandlerAnswers(handlers) :
          LET ev == events[cursor]
              h == HandlerLoop(ev, 0, handlers, drag_target, answers)
          IN  /\ offers' = h.offers
              /\ drag_target' = TargetAfter(ev, drag_target, h.drag_start_target)
    /\ cursor' = cursor + 1
    /\ UNCHANGED <<handlers, pointer_position, pointer_pressed_position, touches,
                   gesture, buttons_state, last_pressed_time, last_click_time,
                   raw, events, entry_target, observed>>

\* handle(), lines 128-129: the loop is over and handle() returns; its locals
\* are gone
Returned ==
    /\ ~Idle
    /\ cursor > Len(events)
    /\ raw' = None
    /\ events' = <<>>
    /\ cursor' = 0
    /\ offers' = <<>>
    /\ entry_target' = None
    /\ UNCHANGED <<core, observed>>

\* lines 134-143
ButtonPressed(button, t) ==
    LET buttons == set_pressed(buttons_state, button)
    IN  /\ Idle
        /\ buttons_state' = buttons
        /\ last_pressed_time' = t
        /\ pointer_pressed_position' = pointer_position
        /\ pressed_at' = [pressed_at EXCEPT ![button] = Some(t)]
        /\ drag_started' = None
        /\ Processed([kind |-> "ButtonPressed"], <<EvButtonPressed(button, MouseEventPos(pointer_position, buttons))>>)
        /\ UNCHANGED <<handlers, pointer_position, touches, gesture, last_click_time,
                       drag_target>>

\* ReleaseIsClick with <= for < at the timeout
ReleaseIsClickAtTimeout(t, pressed_time) ==
    DurationSinceOrDefault(t, pressed_time) <= CLICK_TIMEOUT

\* line 148
ReleaseIsClick(t, pressed_time) ==
    DurationSinceOrDefault(t, pressed_time) < CLICK_TIMEOUT

\* ReleaseIsDoubleClick with <= for < at the timeout
ReleaseIsDoubleClickAtTimeout(t, click_time) ==
    DurationSinceOrDefault(t, click_time) <= DBL_CLICK_TIMEOUT

\* lines 153-154
ReleaseIsDoubleClick(t, click_time) ==
    DurationSinceOrDefault(t, click_time) < DBL_CLICK_TIMEOUT

\* lines 144-167
ButtonReleased(button, t) ==
    LET buttons == set_released(buttons_state, button)
        me == MouseEventPos(pointer_position, buttons)
        click == ReleaseIsClick(t, last_pressed_time)
        evs == <<EvButtonReleased(button, me)>>
               \o (IF click THEN <<EvClick(button, me)>> ELSE <<>>)
               \o (IF click /\ ReleaseIsDoubleClick(t, last_click_time)
                   THEN <<EvDoubleClick(button, me)>> ELSE <<>>)
               \o (IF click /\ is_some(drag_target)
                   THEN <<EvDragEnded(button, me)>> ELSE <<>>)
    IN  /\ Idle
        /\ buttons_state' = buttons
        /\ last_click_time' = IF click THEN t ELSE last_click_time
        \* line 161: drag_target.take(), inside the click branch only
        /\ drag_target' = IF click THEN None ELSE drag_target
        /\ pressed_at' = [pressed_at EXCEPT ![button] = None]
        /\ drag_started' = None
        /\ Processed([kind |-> "ButtonReleased"], evs)
        /\ UNCHANGED <<handlers, pointer_position, pointer_pressed_position, touches,
                       gesture, last_pressed_time>>

\* StartsDrag with >= for > at the threshold
StartsDragAtThreshold(target, position, origin) ==
    is_none(target) /\ taxicab_distance(position, origin) >= DRAG_THRESHOLD

\* lines 175-177 and 232-233: a drag starts with this move
StartsDrag(target, position, origin) ==
    is_none(target) /\ taxicab_distance(position, origin) > DRAG_THRESHOLD

\* lines 168-197
PointerMoved(position) ==
    LET prev_position == pointer_position
        me == MouseEventPos(position, buttons_state)
        sp == single_pressed(buttons_state)
        starts == is_some(sp) /\ StartsDrag(drag_target, position, pointer_pressed_position)
        is_dragging == is_some(sp) /\ (is_some(drag_target) \/ starts)
        evs == <<EvPointerMoved(me)>>
               \o (IF starts
                   THEN <<EvDragStarted(unwrap(sp),
                              MouseEventPos(pointer_pressed_position, buttons_state))>>
                   ELSE <<>>)
               \o (IF is_dragging
                   THEN <<EvDrag(unwrap(sp), Sub(position, prev_position), me)>>
                   ELSE <<>>)
    IN  /\ Idle
        /\ pointer_position' = position
        /\ drag_started' = IF starts THEN sp ELSE drag_started
        /\ Processed([kind |-> "PointerMoved"], evs)
        /\ UNCHANGED <<handlers, pointer_pressed_position, touches, gesture,
                       buttons_state, last_pressed_time, last_click_time, drag_target,
                       pressed_at>>

\* lines 198-200
Scroll(delta) ==
    /\ Idle
    /\ Processed([kind |-> "Scroll"], <<EvScroll(delta, MouseEventPos(pointer_position, buttons_state))>>)
    /\ UNCHANGED <<handlers, pointer_position, pointer_pressed_position, touches,
                   gesture, buttons_state, last_pressed_time, last_click_time,
                   drag_target, observed>>

\* ------------------------------------------------------------ touches
\* TouchInfo (_start_time is never read and is left out)
TouchInfo(id, position) ==
    [id |-> id, start_position |-> position, prev_position |-> position]

\* position in `ts` of the first contact with this id, 0 when there is none
RECURSIVE IndexOfTouch(_, _, _)
IndexOfTouch(ts, id, i) ==
    IF i > Len(ts) THEN 0
    ELSE IF ts[i].id = id THEN i
    ELSE IndexOfTouch(ts, id, i + 1)

\* Vec::remove(i), i a position of `ts`
Remove(ts, i) == SubSeq(ts, 1, i - 1) \o SubSeq(ts, i + 1, Len(ts))

\* RemoveTouch that removes the first contact, whatever its id
RemoveFirst(ts, id) == IF ts = <<>> THEN ts ELSE Tail(ts)

\* RemoveTouch without the remove of lines 205 and 268
KeepTouch(ts, id) == ts

\* lines 202-208 and 266-271: the first contact with this id is removed
RemoveTouch(ts, id) ==
    LET i == IndexOfTouch(ts, id, 1)
    IN  IF i = 0 THEN ts ELSE Remove(ts, i)

\* SetPrevPosition without the assignment of line 259
KeepPrevPosition(ts, id, position) == ts

\* lines 257-261: every contact with this id gets the new previous position
SetPrevPosition(ts, id, position) ==
    [i \in 1..Len(ts) |->
        IF ts[i].id = id THEN [ts[i] EXCEPT !.prev_position = position] ELSE ts[i]]

\* GestureController::start, lines 325-335: the controller afterwards
GestureStart(t1, t2) ==
    LET delta == Sub(t1.start_position, t2.start_position)
    IN  [touch_mode |-> "Pan",
         distance_start |-> MagnitudeSq(delta),
         midpoint_start |-> Half(Add(t1.start_position, t2.start_position)),
         angle_start |-> atan2(delta[2], delta[1])]

\* NextTouchMode with the checks of lines 363 and 365 exchanged
NextTouchModeTiltFirst(mode, distance, midpoint, angle, d_start, m_start, a_start) ==
    IF mode # "Pan" THEN mode
    ELSE IF LengthExceeds(MagnitudeSq(Sub(midpoint, m_start)), TILT_THRESHOLD) THEN "Tilt"
    ELSE IF LengthsDifferBy(distance, d_start, ZOOM_THRESHOLD) THEN "Zoom"
    ELSE IF Abs(angle - a_start) > ROTATE_THRESHOLD THEN "Rotate"
    ELSE mode

\* NextTouchMode without the `if self.touch_mode == TouchMode::Pan` of line
\* 362: the thresholds are checked in every mode
NextTouchModeUnguarded(mode, distance, midpoint, angle, d_start, m_start, a_start) ==
    IF LengthsDifferBy(distance, d_start, ZOOM_THRESHOLD) THEN "Zoom"
    ELSE IF LengthExceeds(MagnitudeSq(Sub(midpoint, m_start)), TILT_THRESHOLD) THEN "Tilt"
    ELSE IF Abs(angle - a_start) > ROTATE_THRESHOLD THEN "Rotate"
    ELSE mode

\* lines 362-370: the mode after the check of the thresholds
NextTouchMode(mode, distance, midpoint, angle, d_start, m_start, a_start) ==
    IF mode # "Pan" THEN mode
    ELSE IF LengthsDifferBy(distance, d_start, ZOOM_THRESHOLD) THEN "Zoom"
    ELSE IF LengthExceeds(MagnitudeSq(Sub(midpoint, m_start)), TILT_THRESHOLD) THEN "Tilt"
    ELSE IF Abs(angle - a_start) > ROTATE_THRESHOLD THEN "Rotate"
    ELSE mode

\* GestureEvent with the zoom factor of line 383 inverted and anchored at the
\* contact that moved
GestureEventInverseZoom(mode, old_positions, new_positions, other_touch_position) ==
    LET delta == Sub(new_positions[1], new_positions[2])
        midpoint == Half(Add(new_positions[1], new_positions[2]))
        last_midpoint == Half(Add(old_positions[1], old_positions[2]))
        old_delta == Sub(old_positions[1], old_positions[2])
        moved == IF new_positions[1] # old_positions[1] THEN new_positions[1]
                 ELSE new_positions[2]
    IN  CASE mode = "Pan" -> EvPan(Sub(midpoint, last_midpoint), midpoint)
          [] mode = "Zoom" -> EvZoom(MagnitudeSq(delta), MagnitudeSq(old_delta), moved)
          [] mode = "Rotate" ->
                EvRotate(0, -(atan2(delta[2], delta[1]) - atan2(old_delta[2], old_delta[1])))
          [] mode = "Tilt" -> EvRotate(Sub(midpoint, last_midpoint)[2], 0)

\* lines 374-398: the event emitted in this mode
GestureEvent(mode, old_positions, new_positions, other_touch_position) ==
    LET delta == Sub(new_positions[1], new_positions[2])
        midpoint == Half(Add(new_positions[1], new_positions[2]))
        last_midpoint == Half(Add(old_positions[1], old_positions[2]))
        old_delta == Sub(old_positions[1], old_positions[2])
    IN  CASE mode = "Pan" -> EvPan(Sub(midpoint, last_midpoint), midpoint)
          [] mode = "Zoom" ->
                EvZoom(MagnitudeSq(old_delta), MagnitudeSq(delta), other_touch_position)
          [] mode = "Rotate" ->
                EvRotate(0, -(atan2(delta[2], delta[1]) - atan2(old_delta[2], old_delta[1])))
          [] mode = "Tilt" -> EvRotate(Sub(midpoint, last_midpoint)[2], 0)

\* GestureController::update_gesture, lines 338-400: the mode afterwards and
\* the events returned
UpdateGesture(t1, t2, id, position) ==
    IF t1.id # id /\ t2.id # id
    THEN [touch_mode |-> touch_mode, events |-> <<>>]
    ELSE LET other_touch_position ==
                 IF id = t1.id THEN t2.prev_position ELSE t1.prev_position
             old_positions == <<t1.prev_position, t2.prev_position>>
             new_positions == IF id = t1.id THEN <<position, t2.prev_position>>
                              ELSE <<t1.prev_position, position>>
             delta == Sub(new_positions[1], new_positions[2])
             mode == NextTouchMode(touch_mode, MagnitudeSq(delta),
                                   Half(Add(new_positions[1], new_positions[2])),
                                   atan2(delta[2], delta[1]),
                                   distance_start, midpoint_start, angle_start)
         IN  [touch_mode |-> mode,
              events |-> <<GestureEvent(mode, old_positions, new_positions,
                                        other_touch_position)>>]

\* lines 201-223
TouchStart(id, position) ==
    LET ts == Append(RemoveTouch(touches, id), TouchInfo(id, position))
        g == GestureStart(ts[1], ts[2])
    IN  /\ Idle
        /\ touches' = ts
        /\ IF Len(ts) = 2
           THEN /\ touch_mode' = g.touch_mode
                /\ distance_start' = g.distance_start
                /\ midpoint_start' = g.midpoint_start
                /\ angle_start' = g.angle_start
           ELSE UNCHANGED gesture
        /\ Processed([kind |-> "TouchStart", id |-> id], <<>>)
        /\ UNCHANGED <<handlers, pointer_position, pointer_pressed_position,
                       buttons_state, last_pressed_time, last_click_time, drag_target,
                       observed>>

\* FindTouch that falls back to the first tracked contact
FindTouchOrFirst(ts, id) ==
    LET i == IndexOfTouch(ts, id, 1)
    IN  IF ts = <<>> THEN None ELSE Some(ts[IF i = 0 THEN 1 ELSE i])

\* line 225: touches.iter().find(|t| t.id == touch_id)
FindTouch(ts, id) ==
    LET i == IndexOfTouch(ts, id, 1)
    IN  IF i = 0 THEN None ELSE Some(ts[i])

\* lines 224-264
TouchMove(id, position) ==
    IF is_none(FindTouch(touches, id))
    THEN \* line 225: process() returns None, handle() dispatches nothing
         /\ Idle
         /\ Processed([kind |-> "TouchMove", id |-> id], <<>>)
         /\ UNCHANGED <<core, observed>>
    ELSE LET touch_info == unwrap(FindTouch(touches, id))
             starts == StartsDrag(drag_target, position, touch_info.start_position)
             is_dragging == is_some(drag_target) \/ starts
             drag_events ==
                 (IF starts
                  THEN <<EvDragStarted("Other",
                             MouseEventPos(touch_info.start_position, buttons_state))>>
                  ELSE <<>>)
                 \o (IF is_dragging
                     THEN <<EvDrag("Other", Sub(position, touch_info.prev_position),
                                   MouseEventPos(position, buttons_state))>>
                     ELSE <<>>)
             u == UpdateGesture(touches[1], touches[2], id, position)
         IN  /\ Idle
             /\ touches' = SetPrevPosition(touches, id, position)
             /\ touch_mode' = IF Len(touches) = 2 THEN u.touch_mode ELSE touch_mode
             /\ Processed([kind |-> "TouchMove", id |-> id],
                          IF Len(touches) = 1 THEN drag_events
                          ELSE IF Len(touches) = 2 THEN u.events
                          ELSE <<>>)
             /\ UNCHANGED <<handlers, pointer_position, pointer_pressed_position,
                            midpoint_start, angle_start, distance_start, buttons_state,
                            last_pressed_time, last_click_time, drag_target, observed>>

\* lines 265-284
TouchEnd(id, position) ==
    LET ts == RemoveTouch(touches, id)
        ends == is_some(drag_target) /\ ts = <<>>
    IN  /\ Idle
        /\ touches' = ts
        /\ drag_target' = IF ends THEN None ELSE drag_target
        /\ Processed([kind |-> "TouchEnd", id |-> id],
                     IF ends
                     THEN <<EvDragEnded("Other", MouseEventPos(position, buttons_state))>>
                     ELSE <<>>)
        /\ UNCHANGED <<handlers, pointer_position, pointer_pressed_position, gesture,
                       buttons_state, last_pressed_time, last_click_time, observed>>

\* ------------------------------------------------------------ specifications
\* The raw events handle() is called with, drawn from the given sets of
\* buttons, clock readings, pointer positions, scroll deltas, touch starts
\* <<id, position>>, touch ids, and positions of touch moves and of touch ends.
Raw(buttons, clock, pointer, deltas, starts, ids, moves, ends) ==
    \/ \E b \in buttons, t \in clock : ButtonPressed(b, t)
    \/ \E b \in buttons, t \in clock : ButtonReleased(b, t)
    \/ \E p \in pointer : PointerMoved(p)
    \/ \E d \in deltas : Scroll(d)
    \/ \E s \in starts : TouchStart(s[1], s[2])
    \/ \E id \in ids, p \in moves : TouchMove(id, p)
    \/ \E id \in ids, p \in ends : TouchEnd(id, p)

\* Mouse and touch input together, over small input sets.
Next ==
    \/ add_handler
    \/ DispatchEvent
    \/ Returned
    \/ Raw(Buttons, {1000, 1300}, PointerPoints, ScrollDeltas,
           {<<1, <<0, 0>>>>}, {1, 2}, {<<0, 0>>, <<0, 20>>}, {<<0, 0>>})

Spec == Init /\ [][Next]_vars

\* Mouse input alone.
NextMouse ==
    \/ add_handler
    \/ DispatchEvent
    \/ Returned
    \/ Raw(Buttons, ClockReadings, PointerPoints, ScrollDeltas, {}, {}, {}, {})

SpecMouse == Init /\ [][NextMouse]_vars

\* Touch input alone: two contacts, and a third id that is never started.
NextTouch ==
    \/ add_handler
    \/ DispatchEvent
    \/ Returned
    \/ Raw({}, {}, {}, {}, {1, 2} \X TouchStartPoints, TouchIds, TouchPoints,
           TouchEndPoints)

SpecTouch == Init /\ [][NextTouch]_vars

\* Touch input with up to three contacts tracked at once, over few positions.
NextContacts ==
    \/ add_handler
    \/ DispatchEvent
    \/ Returned
    \/ Raw({}, {}, {}, {}, TouchIds \X TouchStartPoints, TouchIds,
           {<<0, 0>>, <<0, 130>>}, {<<0, 0>>})

SpecContacts == Init /\ [][NextContacts]_vars

\* ------------------------------------------------------------ properties
\* the kinds of the events, as a set
KindSet(evs) == {evs[k].kind : k \in 1..Len(evs)}
\* the step is one iteration of handle()'s loop: events[cursor] is dispatched
\* and offers' are the calls it made
DispatchStep == cursor \in 1..Len(events) /\ cursor' = cursor + 1
\* the event dispatched last, when there is one
HasDispatched == cursor >= 2
Dispatched == events[cursor - 1]
SingleButton == Cardinality(buttons_state) = 1

\* C1. Drag pinning.  The drag target becomes Some(i) only in the dispatch
\* of a DragStarted that handler i answered with Consume, and from then on
\* it stays i or becomes empty; and every Drag or DragEnded is offered to
\* the pinned handler alone, and to no handler at all while no target is
\* pinned.
C1_DragPinning ==
    [][ /\ (DispatchStep /\ IsDragContinuation(events[cursor]))
              => \A k \in 1..Len(offers') :
                    is_some(drag_target) /\ offers'[k].handler = unwrap(drag_target)
        /\ (is_some(drag_target') /\ drag_target' # drag_target)
              => /\ DispatchStep
                 /\ events[cursor].kind = "DragStarted"
                 /\ offers' # <<>>
                 /\ offers'[Len(offers')] =
                        [handler |-> unwrap(drag_target'), answer |-> Consume]
      ]_vars

\* a Drag was offered to the second handler alone, the first one passed over
C1_Witness ==
    /\ HasDispatched
    /\ handlers = 2
    /\ Dispatched.kind = "Drag"
    /\ drag_target = Some(1)
    /\ Len(offers) = 1
    /\ offers[1].handler = 1

\* C2. A DragEnded that ends a drag pinned to handler i (the target when
\* handle() was entered) is offered to handler i.
C2_DragEndedOfferedToPinned ==
    (HasDispatched /\ Dispatched.kind = "DragEnded" /\ is_some(entry_target))
        => \E k \in 1..Len(offers) : offers[k].handler = unwrap(entry_target)

\* C3 as claimed.  With a single button held, the first PointerMoved beyond
\* the threshold emits DragStarted then Drag, and every PointerMoved after it
\* while the button remains pressed emits Drag and no DragStarted, whatever
\* the handlers answered.
C3_DragStartedOnceWhateverAnswers ==
    [][ \A p \in PointerPoints :
          (PointerMoved(p) /\ SingleButton)
              => IF drag_started = single_pressed(buttons_state)
                 THEN Kinds(events') = <<"PointerMoved", "Drag">>
                 ELSE taxicab_distance(p, pointer_pressed_position) > DRAG_THRESHOLD
                          => Kinds(events') = <<"PointerMoved", "DragStarted", "Drag">>
      ]_vars

\* C3 amended.  With a single button held: while no drag target is pinned, a
\* PointerMoved beyond the threshold emits DragStarted once, immediately
\* followed by Drag, and one within the threshold emits neither; the target
\* is pinned by the dispatch of that DragStarted exactly when a handler
\* answers Consume; and while a target is pinned every PointerMoved emits
\* Drag and no DragStarted.
C3_DragStartedUntilConsumed ==
    [][ /\ \A p \in PointerPoints :
              (PointerMoved(p) /\ SingleButton)
                  => Kinds(events') =
                        IF is_some(drag_target) THEN <<"PointerMoved", "Drag">>
                        ELSE IF taxicab_distance(p, pointer_pressed_position)
                                    > DRAG_THRESHOLD
                        THEN <<"PointerMoved", "DragStarted", "Drag">>
                        ELSE <<"PointerMoved">>
        /\ (DispatchStep /\ events[cursor].kind = "DragStarted")
              => (is_some(drag_target')
                     <=> (offers' # <<>> /\ offers'[Len(offers')].answer = Consume))
      ]_vars

\* a later PointerMoved of the same press, with the drag pinned: Drag alone
C3_Witness ==
    /\ cursor = 1
    /\ Kinds(events) = <<"PointerMoved", "Drag">>
    /\ SingleButton
    /\ is_some(drag_target)
    /\ drag_started = single_pressed(buttons_state)

\* C4 as claimed.  With exactly one button pressed, a PointerMoved to within
\* the threshold of the press-origin emits neither DragStarted nor Drag.
C4_NoDragWithinThreshold ==
    [][ \A p \in PointerPoints :
          (/\ PointerMoved(p)
           /\ SingleButton
           /\ taxicab_distance(p, pointer_pressed_position) <= DRAG_THRESHOLD)
              => KindSet(events') \cap {"DragStarted", "Drag"} = {}
      ]_vars

\* C4 amended.  With exactly one button pressed, a PointerMoved to within
\* the threshold of the press-origin never emits DragStarted, and emits Drag
\* exactly when a drag target is pinned.
C4_NoDragStartWithinThreshold ==
    [][ \A p \in PointerPoints :
          (/\ PointerMoved(p)
           /\ SingleButton
           /\ taxicab_distance(p, pointer_pressed_position) <= DRAG_THRESHOLD)
              => /\ "DragStarted" \notin KindSet(events')
                 /\ "Drag" \in KindSet(events') <=> is_some(drag_target)
      ]_vars

\* a move to exactly the threshold away from the press-origin, one button
\* pressed and no drag pinned: PointerMoved alone
C4_Witness ==
    /\ cursor = 1
    /\ raw = Some([kind |-> "PointerMoved"])
    /\ SingleButton
    /\ is_none(drag_target)
    /\ taxicab_distance(pointer_position, pointer_pressed_position) = DRAG_THRESHOLD
    /\ Kinds(events) = <<"PointerMoved">>

\* C5.  A ButtonReleased(b) 200 ms or more after the ButtonPressed(b) of the
\* same button yields no Click(b), and one less than 200 ms after it yields
\* a Click(b), whatever button events occurred in between.
C5_ClickPerButton ==
    [][ \A b \in Buttons, t \in ClockReadings :
          (ButtonReleased(b, t) /\ is_some(pressed_at[b]))
              => LET held == t - unwrap(pressed_at[b])
                 IN  /\ held >= CLICK_TIMEOUT => "Click" \notin KindSet(events')
                     /\ (0 <= held /\ held < CLICK_TIMEOUT) => "Click" \in KindSet(events')
      ]_vars

\* C6.  A release that produces a Click also produces a DoubleClick exactly
\* when its time is less than 500 ms after the last-click time; the
\* last-click time becomes the current time on every Click and changes in no
\* other step; a DoubleClick is never emitted without a Click.
C6_DoubleClick ==
    [][ /\ \A b \in Buttons, t \in ClockReadings :
              ButtonReleased(b, t)
                  => LET ks == KindSet(events')
                     IN  /\ "Click" \in ks
                              => /\ "DoubleClick" \in ks
                                     <=> t - last_click_time < DBL_CLICK_TIMEOUT
                                 /\ last_click_time' = t
                         /\ "DoubleClick" \in ks => "Click" \in ks
                         /\ "Click" \notin ks => last_click_time' = last_click_time
        /\ last_click_time' # last_click_time
              => \E b \in Buttons, t \in ClockReadings : ButtonReleased(b, t)
      ]_vars

\* a release that produced a Click and a DoubleClick
C6_Witness ==
    /\ cursor = 1
    /\ Kinds(events) = <<"ButtonReleased", "Click", "DoubleClick">>
    /\ last_click_time > UNIX_EPOCH

\* C7 as claimed.  A ButtonReleased whose time is earlier than the last-press
\* time emits no Click, and one whose time is earlier than the last-click
\* time emits no DoubleClick.
C7_EarlierTimeOutsideWindow ==
    [][ \A b \in Buttons, t \in ClockReadings :
          ButtonReleased(b, t)
              => /\ t < last_pressed_time => "Click" \notin KindSet(events')
                 /\ t < last_click_time => "DoubleClick" \notin KindSet(events')
      ]_vars

\* C7 amended.  A ButtonReleased whose time is earlier than the last-press
\* time is taken to be zero time after it: a Click is emitted; and when a
\* Click is emitted at a time earlier than the last-click time, a
\* DoubleClick is emitted too.  The release is processed like any other.
C7_EarlierTimeInsideWindow ==
    [][ \A b \in Buttons, t \in ClockReadings :
          ButtonReleased(b, t)
              => /\ t < last_pressed_time => "Click" \in KindSet(events')
                 /\ ("Click" \in KindSet(events') /\ t < last_click_time)
                        => "DoubleClick" \in KindSet(events')
                 /\ Kinds(events')[1] = "ButtonReleased"
      ]_vars

\* a release read at a time before the last press: it clicked, and the
\* last-click time it recorded is earlier than the last-press time
C7_Witness ==
    /\ cursor = 1
    /\ raw = Some([kind |-> "ButtonReleased"])
    /\ "Click" \in KindSet(events)
    /\ last_click_time < last_pressed_time

\* C8.  The gesture mode changes only from Pan to Zoom, Tilt or Rotate, in a
\* TouchMove with two contacts, or to Pan, in a TouchStart that brings the
\* number of contacts to two: between two such TouchStarts it changes at
\* most once and a mode other than Pan stays.
C8_ModeSticky ==
    [][ touch_mode' # touch_mode
          => \/ /\ touch_mode = "Pan"
                /\ Len(touches) = 2
                /\ \E id \in TouchIds, p \in TouchPoints : TouchMove(id, p)
             \/ /\ touch_mode' = "Pan"
                /\ Len(touches') = 2
                /\ \E id \in TouchIds, p \in TouchStartPoints : TouchStart(id, p)
      ]_vars

\* a TouchMove left the mode Rotate although the two contacts are now
\* further apart than the zoom threshold allows
C8_Witness ==
    /\ cursor = 1
    /\ raw # None
    /\ unwrap(raw).kind = "TouchMove"
    /\ touch_mode = "Rotate"
    /\ Len(touches) = 2
    /\ LengthsDifferBy(MagnitudeSq(Sub(touches[1].prev_position,
                                       touches[2].prev_position)),
                       distance_start, ZOOM_THRESHOLD)

\* C9.  An event other than Drag and DragEnded is offered to the handlers in
\* registration order, handler j exactly when every handler before it was
\* offered the event and answered Propagate; the events of one raw event are
\* dispatched in emission order, one per step, each handler loop run to its
\* end before the next, and handle() returns only after the last.
C9_DispatchOrder ==
    [][ /\ (DispatchStep /\ ~IsDragContinuation(events[cursor]))
              => /\ \A k \in 1..Len(offers') : offers'[k].handler = k - 1
                 /\ \A j \in 0..(handlers - 1) :
                        (j + 1 <= Len(offers'))
                            <=> \A i \in 0..(j - 1) :
                                    /\ i + 1 <= Len(offers')
                                    /\ offers'[i + 1].answer = Propagate
        /\ cursor' # cursor
              => \/ cursor \in 1..Len(events) /\ cursor' = cursor + 1 /\ events' = events
                 \/ cursor = Len(events) + 1 /\ cursor' = 0
                 \/ cursor = 0 /\ cursor' = 1
      ]_vars

\* the second of the events of a raw event was stopped by the second handler,
\* after the first handler let it pass
C9_Witness ==
    /\ cursor = 3
    /\ handlers = 2
    /\ ~IsDragContinuation(events[2])
    /\ offers = <<[handler |-> 0, answer |-> Propagate],
                  [handler |-> 1, answer |-> Stop]>>

\* C10.  A TouchMove whose id is not among the tracked contacts produces no
\* event, so that nothing is offered to any handler, and leaves the contacts,
\* the gesture mode and baseline, the button state, the pointer position and
\* the drag target unchanged.
C10_UnknownIdIgnored ==
    [][ \A id \in TouchIds, p \in TouchPoints :
          (TouchMove(id, p) /\ \A i \in 1..Len(touches) : touches[i].id # id)
              => /\ events' = <<>>
                 /\ offers' = <<>>
                 /\ UNCHANGED core
      ]_vars

\* a TouchMove of contact 3, which never started, with two contacts tracked
C10_Witness ==
    /\ cursor = 1
    /\ raw = Some([kind |-> "TouchMove", id |-> 3])
    /\ Len(touches) = 2
    /\ events = <<>>

\* the tracked contacts have pairwise distinct ids
DistinctIds(ts) == \A i, j \in 1..Len(ts) : ts[i].id = ts[j].id => i = j
\* a contact with this id is tracked
Tracked(ts, id) == \E i \in 1..Len(ts) : ts[i].id = id

\* C11.  The tracked contacts have pairwise distinct ids after every step;
\* a TouchStart for an id already tracked replaces the stale contact: the
\* number of contacts stays, and the new contact, at the position of the
\* event, is the only one with that id.
C11_DistinctTouchIds ==
    [][ /\ DistinctIds(touches')
        /\ \A id \in TouchIds, p \in TouchStartPoints :
              (TouchStart(id, p) /\ Tracked(touches, id))
                  => /\ Len(touches') = Len(touches)
                     /\ touches'[Len(touches')] = TouchInfo(id, p)
      ]_vars

\* a TouchStart after which three contacts are tracked, the first of them
\* moved since it started
C11_Witness ==
    /\ cursor = 1
    /\ raw # None
    /\ unwrap(raw).kind = "TouchStart"
    /\ Len(touches) = 3
    /\ touches[1].prev_position # touches[1].start_position
    /\ DistinctIds(touches)

\* the step is the call of process() for a raw event
ProcessStep == cursor = 0 /\ cursor' = 1

\* C12.  The drag target becomes a handler's index exactly in the dispatch
\* of a DragStarted that this handler, one of the chain, answers with
\* Consume; in the dispatch of any other event, or of a DragStarted that
\* ends with another answer, and in every other step, it stays or becomes
\* empty.  No DragStarted is emitted, and none dispatched, while a target is
\* pinned.
C12_DragTargetSetOnlyOnConsume ==
    [][ /\ DispatchStep
              => LET ev == events[cursor]
                     n == Len(offers')
                 IN  IF ev.kind = "DragStarted" /\ n > 0 /\ offers'[n].answer = Consume
                     THEN /\ drag_target' = Some(offers'[n].handler)
                          /\ offers'[n].handler \in 0..(handlers - 1)
                          /\ is_none(drag_target)
                     ELSE drag_target' \in {None, drag_target}
        /\ ~DispatchStep => drag_target' \in {None, drag_target}
        /\ (ProcessStep /\ "DragStarted" \in KindSet(events')) => is_none(drag_target)
        /\ is_some(drag_target') => unwrap(drag_target') \in 0..(handlers' - 1)
      ]_vars

\* the second handler of two consumed a DragStarted that the first one let
\* pass, and is the drag target
C12_Witness ==
    /\ HasDispatched
    /\ Dispatched.kind = "DragStarted"
    /\ offers = <<[handler |-> 0, answer |-> Propagate],
                  [handler |-> 1, answer |-> Consume]>>
    /\ drag_target = Some(1)

\* C13.  With exactly one button b pressed and no drag target, a PointerMoved
\* to q further than the threshold from the press-origin p0 produces exactly
\* PointerMoved at q, DragStarted of b at p0, Drag of b at q with the delta
\* from the previous pointer position to q.
C13_DragStartEvents ==
    [][ \A q \in PointerPoints :
          (/\ PointerMoved(q)
           /\ SingleButton
           /\ is_none(drag_target)
           /\ taxicab_distance(q, pointer_pressed_position) > DRAG_THRESHOLD)
              => \E b \in buttons_state :
                    events' =
                      << [kind |-> "PointerMoved",
                          mouse |-> [screen_pointer_position |-> q,
                                     buttons |-> {b}]],
                         [kind |-> "DragStarted", button |-> b,
                          mouse |-> [screen_pointer_position |-> pointer_pressed_position,
                                     buttons |-> {b}]],
                         [kind |-> "Drag", button |-> b,
                          delta |-> <<q[1] - pointer_position[1],
                                      q[2] - pointer_position[2]>>,
                          mouse |-> [screen_pointer_position |-> q,
                                     buttons |-> {b}]] >>
      ]_vars

\* a drag that started on the second move after the press: the DragStarted
\* is at the press-origin, not at the pointer, and the delta of the Drag is
\* not the distance from the press-origin
C13_Witness ==
    /\ cursor = 1
    /\ Kinds(events) = <<"PointerMoved", "DragStarted", "Drag">>
    /\ events[2].mouse.screen_pointer_position = pointer_pressed_position
    /\ pointer_pressed_position # pointer_position
    /\ events[3].delta # Sub(pointer_position, pointer_pressed_position)

\* C14.  With a drag target pinned, a ButtonReleased 200 ms or more after the
\* last press emits ButtonReleased alone and keeps the target; one less than
\* 200 ms after it emits ButtonReleased, Click, a DoubleClick or none, and
\* DragEnded last, and empties the target.
C14_ReleaseAfterTimeoutKeepsDrag ==
    [][ \A b \in Buttons, t \in ClockReadings :
          (ButtonReleased(b, t) /\ is_some(drag_target))
              => IF t - last_pressed_time >= CLICK_TIMEOUT
                 THEN /\ Kinds(events') = <<"ButtonReleased">>
                      /\ drag_target' = drag_target
                 ELSE /\ Kinds(events') \in
                            {<<"ButtonReleased", "Click", "DragEnded">>,
                             <<"ButtonReleased", "Click", "DoubleClick", "DragEnded">>}
                      /\ drag_target' = None
      ]_vars

\* a release after the timeout, the drag target still pinned
C14_Witness ==
    /\ cursor = 1
    /\ raw = Some([kind |-> "ButtonReleased"])
    /\ Kinds(events) = <<"ButtonReleased">>
    /\ is_some(drag_target)
    /\ buttons_state = {}

\* C15.  TouchEnd removes the contact with the id, if there is one, and no
\* other; it emits DragEnded, of button Other at the position of the event,
\* and empties the drag target exactly when a target is pinned and no
\* contact remains; otherwise it emits nothing and the target stays.
C15_TouchEnd ==
    [][ \A id \in TouchIds, p \in TouchEndPoints :
          TouchEnd(id, p)
              => /\ touches' = SelectSeq(touches, LAMBDA t : t.id # id)
                 /\ ~Tracked(touches, id) => touches' = touches
                 /\ IF is_some(drag_target) /\ touches' = <<>>
                    THEN /\ events' =
                              << [kind |-> "DragEnded", button |-> "Other",
                                  mouse |-> [screen_pointer_position |-> p,
                                             buttons |-> buttons_state]] >>
                         /\ drag_target' = None
                    ELSE /\ events' = <<>>
                         /\ drag_target' = drag_target
      ]_vars

\* the last contact ended with a drag pinned: DragEnded, the target empty
C15_Witness ==
    /\ cursor = 1
    /\ raw # None
    /\ unwrap(raw).kind = "TouchEnd"
    /\ Kinds(events) = <<"DragEnded">>
    /\ touches = <<>>
    /\ is_some(entry_target)
    /\ is_none(drag_target)

\* the positions of the two tracked contacts give a distance that differs
\* from the baseline by more than the zoom threshold
ZoomExceeded(ts) ==
    LengthsDifferBy(MagnitudeSq(Sub(ts[1].prev_position, ts[2].prev_position)),
                    distance_start, ZOOM_THRESHOLD)
\* their midpoint is further than the tilt threshold from the baseline
TiltExceeded(ts) ==
    LET mid == Half(Add(ts[1].prev_position, ts[2].prev_position))
    IN  MagnitudeSq(Sub(mid, midpoint_start)) > TILT_THRESHOLD * TILT_THRESHOLD
\* their angle differs from the baseline by more than the rotate threshold
RotateExceeded(ts) ==
    LET d == Sub(ts[1].prev_position, ts[2].prev_position)
    IN  Abs(atan2(d[2], d[1]) - angle_start) > ROTATE_THRESHOLD

\* C16.  A TouchMove of one of two tracked contacts in mode Pan leaves the
\* mode Zoom if the distance threshold is exceeded, else Tilt if the midpoint
\* threshold is, else Rotate if the angle threshold is, else Pan; in another
\* mode it leaves the mode as it is, whatever thresholds are exceeded.
C16_ModePriority ==
    [][ \A id \in TouchIds, p \in TouchPoints :
          (TouchMove(id, p) /\ Len(touches) = 2 /\ Tracked(touches, id))
              => touch_mode' =
                   IF touch_mode # "Pan" THEN touch_mode
                   ELSE IF ZoomExceeded(touches') THEN "Zoom"
                   ELSE IF TiltExceeded(touches') THEN "Tilt"
                   ELSE IF RotateExceeded(touches') THEN "Rotate"
                   ELSE "Pan"
      ]_vars

\* a TouchMove that exceeds the three thresholds at once: the mode is Zoom
C16_Witness ==
    /\ cursor = 1
    /\ raw # None
    /\ unwrap(raw).kind = "TouchMove"
    /\ Len(touches) = 2
    /\ touch_mode = "Zoom"
    /\ Kinds(events) = <<"Zoom">>
    /\ ZoomExceeded(touches)
    /\ TiltExceeded(touches)
    /\ RotateExceeded(touches)

\* C17.  A TouchMove of one of two tracked contacts emits exactly one event,
\* of the mode after the check of the thresholds: Pan in Pan, Zoom in Zoom,
\* Rotate in Rotate and in Tilt.  The Zoom is anchored at the previous
\* position of the other contact and its factor is the distance before the
\* move over the distance after it.  With contacts at (0,0) and (100,0),
\* the move of the first to (0,130) emits a Zoom anchored at (100,0).
C17_GestureEvents ==
    [][ \A id \in TouchIds, p \in TouchPoints :
          (TouchMove(id, p) /\ Len(touches) = 2 /\ Tracked(touches, id))
              => LET other == IF touches[1].id = id THEN 2 ELSE 1
                     old == Sub(touches[1].prev_position, touches[2].prev_position)
                     new == Sub(touches'[1].prev_position, touches'[2].prev_position)
                 IN  /\ Len(events') = 1
                     /\ events'[1].kind =
                            CASE touch_mode' = "Pan" -> "Pan"
                              [] touch_mode' = "Zoom" -> "Zoom"
                              [] touch_mode' \in {"Rotate", "Tilt"} -> "Rotate"
                     /\ touch_mode' = "Zoom"
                            => /\ events'[1].anchor = touches[other].prev_position
                               /\ events'[1].num_sq = old[1] * old[1] + old[2] * old[2]
                               /\ events'[1].den_sq = new[1] * new[1] + new[2] * new[2]
                     /\ (/\ touches[1].prev_position = <<0, 0>>
                         /\ touches[1].start_position = <<0, 0>>
                         /\ touches[2].prev_position = <<100, 0>>
                         /\ touches[2].start_position = <<100, 0>>
                         /\ touch_mode = "Pan"
                         /\ id = touches[1].id
                         /\ p = <<0, 130>>)
                            => events' = << [kind |-> "Zoom", num_sq |-> 10000,
                                             den_sq |-> 26900, anchor |-> <<100, 0>>] >>
      ]_vars

\* contacts started at (0,0) and (100,0), the first moved to (0,130): the
\* Zoom anchored at (100,0)
C17_Witness ==
    /\ cursor = 1
    /\ Len(touches) = 2
    /\ touches[1].start_position = <<0, 0>>
    /\ touches[1].prev_position = <<0, 130>>
    /\ touches[2].start_position = <<100, 0>>
    /\ events = << [kind |-> "Zoom", num_sq |-> 10000, den_sq |-> 26900,
                    anchor |-> <<100, 0>>] >>

\* C18.  A TouchMove of the only tracked contact emits DragStarted, of button
\* Other at the start position of the contact, then Drag, of button Other
\* with the delta from the previous position, when no drag target is pinned
\* and the move is further than the threshold from the start position; Drag
\* alone when a target is pinned; nothing otherwise.  Afterwards the
\* previous position of the contact is the new position and its start
\* position is as before.
C18_SingleTouchDrag ==
    [][ \A id \in TouchIds, p \in TouchPoints :
          (TouchMove(id, p) /\ Len(touches) = 1 /\ touches[1].id = id)
              => LET c == touches[1]
                     drag == [kind |-> "Drag", button |-> "Other",
                              delta |-> <<p[1] - c.prev_position[1],
                                          p[2] - c.prev_position[2]>>,
                              mouse |-> [screen_pointer_position |-> p,
                                         buttons |-> buttons_state]]
                     started == [kind |-> "DragStarted", button |-> "Other",
                                 mouse |-> [screen_pointer_position |-> c.start_position,
                                            buttons |-> buttons_state]]
                 IN  /\ events' =
                          IF is_some(drag_target) THEN <<drag>>
                          ELSE IF taxicab_distance(p, c.start_position) > DRAG_THRESHOLD
                          THEN <<started, drag>>
                          ELSE <<>>
                     /\ touches' = << [id |-> id, start_position |-> c.start_position,
                                       prev_position |-> p] >>
      ]_vars

\* a drag started by the second move of the only contact: the delta of the
\* Drag is from the previous position, not from the start position
C18_Witness ==
    /\ cursor = 1
    /\ Len(touches) = 1
    /\ Kinds(events) = <<"DragStarted", "Drag">>
    /\ events[1].mouse.screen_pointer_position = touches[1].start_position
    /\ events[2].delta # Sub(touches[1].prev_position, touches[1].start_position)

\* C19.  Whenever exactly two contacts are tracked, the gesture baseline is
\* the distance, midpoint and angle of the start positions of these two
\* contacts.
C19_BaselineOfTrackedPair ==
    Len(touches) = 2
        => LET d == Sub(touches[1].start_position, touches[2].start_position)
           IN  /\ distance_start = d[1] * d[1] + d[2] * d[2]
               /\ midpoint_start =
                      Half(Add(touches[1].start_position, touches[2].start_position))
               /\ angle_start = atan2(d[2], d[1])

\* C20.  When a raw event produces DragStarted followed by Drag, the Drag is
\* offered to the handler that answered Consume to the DragStarted, and to
\* it alone; when no handler did, the Drag is offered to no handler.
C20_PinnedWithinRawEvent ==
    [][ (/\ DispatchStep
         /\ cursor >= 2
         /\ events[cursor].kind = "Drag"
         /\ events[cursor - 1].kind = "DragStarted")
            => IF offers # <<>> /\ offers[Len(offers)].answer = Consume
               THEN /\ Len(offers') = 1
                    /\ offers'[1].handler = offers[Len(offers)].handler
               ELSE offers' = <<>>
      ]_vars

\* PointerMoved, DragStarted and Drag of one raw event dispatched, with no
\* drag target when handle() was called: the second handler consumed the
\* DragStarted and was offered the Drag
C20_Witness ==
    /\ cursor = 4
    /\ Kinds(events) = <<"PointerMoved", "DragStarted", "Drag">>
    /\ is_none(entry_target)
    /\ drag_target = Some(1)
    /\ Len(offers) = 1
    /\ offers[1].handler = 1

====
